---------------------------- MODULE Spec2Model ----------------------------
(***************************************************************************)
(* A model of the msgpack-rpc endpoint package: the endpoint (pending      *)
(* table, msgid counter, write lock, service registry), its send path      *)
(* (Call, Notify, send), its registration entry points, its dispatch loop  *)
(* (Reading) and the two wrappers Client and ServerConn.                   *)
(*                                                                         *)
(* The environment is a set of goroutines of the local program (Procs)     *)
(* that invoke the public operations concurrently, and the remote peer,    *)
(* which may put any envelope on the inbound side of the connection.       *)
(***************************************************************************)
EXTENDS Integers, Sequences, FiniteSets, TLC

\* ------------------------------------------------------------------ bounds
NumProcs   == 2      \* goroutines of the local program
MaxOps     == 2      \* operations started and envelopes received in one behaviour
MsgidMod   == 2      \* the counter wraps here; stands for 2^32 (msgid is a uint32)

\* ------------------------------------------------------- program constants
msgpackRPCReq    == 0
msgpackRPCRsp    == 1
msgpackRPCNotify == 2

Procs == 1..NumProcs
Nil   == "nil"

\* Method names on the wire: the peer names "Add" (a method of the receiver
\* Arith) or "Nope" (a method of no receiver); the local program calls "Echo".
Methods      == {"Add", "Nope"}
LocalMethods == {"Echo"}
PeerMsgid == 7

\* ------------------------------------------------------------- receivers
\* A method of a receiver type, by the properties suitableMethods inspects.
\* numIn counts the receiver, as reflect's method type does.
Method(n, exported, numIn, replyPtr, replyExp, numOut, outErr) ==
    [name |-> n, exported |-> exported, numIn |-> numIn, replyPtr |-> replyPtr,
     replyExported |-> replyExp, numOut |-> numOut, outIsError |-> outErr]

mAdd   == Method("Add",   TRUE,  3, TRUE,  TRUE,  1, TRUE)
mBad   == Method("Bad",   TRUE,  3, FALSE, TRUE,  1, TRUE)   \* reply not a pointer
mHid   == Method("Hid",   TRUE,  3, TRUE,  FALSE, 1, TRUE)   \* reply type unexported
mTwo   == Method("Two",   TRUE,  3, TRUE,  TRUE,  2, FALSE)  \* two results
mInt   == Method("Int",   TRUE,  3, TRUE,  TRUE,  1, FALSE)  \* returns int, not error
mPriv  == Method("priv",  FALSE, 3, TRUE,  TRUE,  1, TRUE)   \* unexported
mShort == Method("Short", TRUE,  2, TRUE,  TRUE,  1, TRUE)   \* one argument only

\* A receiver: the name of its (indirected) type and its method set.
Receivers ==
    { [tname |-> "Arith", methods |-> {mAdd, mBad}],
      [tname |-> "Empty", methods |-> {mBad, mHid, mTwo, mInt, mPriv}],
      [tname |-> "arith", methods |-> {mAdd}],
      [tname |-> "",      methods |-> {mAdd}] }

ExplicitNames == {"Arith"}

\* The receivers and the explicit names endpoint.register is applied to.
RegReceivers ==
    Receivers \cup { [tname |-> "Short", methods |-> {mShort, mBad}] }

RegNames == {"", "Arith", "svc"}

\* isExported: the first rune of the name is upper case.
isExported(name) == name \in {"Arith", "Empty", "Short"}

\* suitableMethods evaluates mtype.In(2) for every exported method: reflect
\* panics when the method has fewer than three inputs.
suitableMethodsPanics(methods) ==
    \E x \in methods : x.exported /\ x.numIn < 3

\* suitableMethods: the methods of the type that pass every test of the loop,
\* keyed by method name.
suitableMethods(methods) ==
    { m.name : m \in { x \in methods :
                         /\ x.exported
                         /\ x.replyPtr
                         /\ x.replyExported
                         /\ x.numOut = 1
                         /\ x.outIsError } }

\* register: the result <<error, serviceMap'>> of endpoint.register.
register(sm, rcvr, name, useName) ==
    LET sname == IF useName THEN name ELSE rcvr.tname
        meth  == suitableMethods(rcvr.methods)
    IN  IF sname = "" THEN <<"no service name", sm>>
        ELSE IF ~isExported(sname) /\ ~useName THEN <<"not exported", sm>>
        ELSE IF sname \in DOMAIN sm THEN <<"service already defined", sm>>
        ELSE IF suitableMethodsPanics(rcvr.methods) THEN <<"panic", sm>>
        ELSE IF meth = {} THEN <<"no exported methods of suitable type", sm>>
        ELSE <<Nil, [n \in DOMAIN sm \cup {sname} |->
                        IF n = sname THEN meth ELSE sm[n]]>>

\* ------------------------------------------------------------------ state
VARIABLES
    kind,        \* which wrapper owns the endpoint: "client" or "server"
    closedCh,    \* the wrapper's `closed` channel: "nil", "open" or "closed"
    connClosed,  \* conn.Close() has been executed
    closed,      \* endpoint.closed
    err,         \* endpoint.err
    msgid,       \* endpoint.msgid
    pending,     \* endpoint.pending: msgid -> the goroutine whose request it is
    serviceMap,  \* endpoint.serviceMap: service name -> method names
    mu,          \* holder of endpoint.mu (0: free)
    outbound,    \* envelopes written to the connection, in order
    inbound,     \* envelopes the peer has sent, in order
    loop,        \* the Client's background goroutine: "none", "spawned", "reading",
                 \* "returned"
    reading,     \* the latest invocation of Reading: what it found and returned
    pc,          \* where each goroutine is
    loc,         \* the locals of the operation each goroutine is in
    req,         \* the request object of each goroutine's Call
    ret,         \* the latest return of an operation: who, what, with which values
    crashed,     \* the process died of an unrecovered panic
    closeCalled, \* Close has been invoked
    closeSaw,    \* the goroutines that were suspended in Call when Close was invoked
    closeMid,    \* the goroutines that were inside Call, past its closed check and
                 \* not yet suspended, when Close was invoked
    accepted,    \* <<service name, methods>> of the registrations that returned nil
    sent,        \* envelopes the send path has encoded
    ops          \* operations started by the program and envelopes sent by the peer

vars == <<kind, closedCh, connClosed, closed, err, msgid, pending, serviceMap,
          mu, outbound, inbound, loop, reading, pc, loc, req, ret, crashed, closeCalled,
          closeSaw, closeMid, accepted, sent, ops>>

epVars   == <<closed, err, msgid, pending, serviceMap>>
wrapVars == <<kind, closedCh, connClosed>>

NoLoc == [op |-> "none", id |-> 0, method |-> "", sendErr |-> Nil,
          afterClose |-> FALSE, wrote |-> FALSE]
NoReq == [msgid |-> 0, rsp |-> Nil, err |-> Nil, done |-> FALSE]
NoRet == [proc |-> 0, op |-> "none", id |-> 0, rsp |-> Nil, err |-> Nil,
          afterClose |-> FALSE, wrote |-> FALSE, sname |-> "", dup |-> FALSE,
          qualifying |-> {}]

NoReading == [ran |-> FALSE, notified |-> FALSE, err |-> Nil]

NoPending  == [k \in {} |-> 0]
NoServices == [n \in {} |-> {}]

\* The map operations of Go on pending.
Put(map, k, v) == [x \in DOMAIN map \cup {k} |-> IF x = k THEN v ELSE map[x]]
Delete(map, k) == [x \in DOMAIN map \ {k} |-> map[x]]

Returned(p, r) ==
    /\ ret' = [r EXCEPT !.proc = p]
    /\ loc' = [loc EXCEPT ![p] = NoLoc]
    /\ pc'  = [pc EXCEPT ![p] = "idle"]

\* NewClient / NewServerConn with newEndpoint: the maps are empty, the flags
\* false, the `closed` channel of the wrapper is left nil, and NewClient has
\* spawned the goroutine that runs Reading.
\*
\* The endpoint is observed either right after construction, or later in its
\* life, when the counter has gone once around (it is back at 0) while the
\* Call of goroutine 1, which drew msgid 1 and registered it, has not yet
\* reached its send, every other Call having returned on a write error.
Init ==
    /\ kind \in {"client", "server"}
    /\ closedCh = "nil"
    /\ connClosed = FALSE
    /\ closed = FALSE
    /\ err = Nil
    /\ msgid = 0
    /\ serviceMap = NoServices
    /\ mu = 0
    /\ outbound = << >>
    /\ inbound = << >>
    /\ loop = IF kind = "client" THEN "spawned" ELSE "none"
    /\ reading = NoReading
    /\ \/ /\ pending = NoPending
          /\ pc = [p \in Procs |-> "idle"]
          /\ loc = [p \in Procs |-> NoLoc]
          /\ req = [p \in Procs |-> NoReq]
       \/ /\ pending = Put(NoPending, 1, 1)
          /\ pc = [p \in Procs |-> IF p = 1 THEN "send_lock" ELSE "idle"]
          /\ loc = [p \in Procs |->
                      IF p = 1 THEN [NoLoc EXCEPT !.op = "Call", !.id = 1,
                                                  !.method = "Echo"]
                               ELSE NoLoc]
          /\ req = [p \in Procs |->
                      IF p = 1 THEN [NoReq EXCEPT !.msgid = 1] ELSE NoReq]
    /\ ret = NoRet
    /\ crashed = FALSE
    /\ closeCalled = FALSE
    /\ closeSaw = {}
    /\ closeMid = {}
    /\ accepted = {}
    /\ sent = 0
    /\ ops = 0

AcceptedNames   == { a[1] : a \in accepted }
AcceptedMethods == UNION { a[2] : a \in accepted }

\* The flat method namespace of the registry.
RegisteredMethods == UNION { serviceMap[n] : n \in DOMAIN serviceMap }

CanStart(p) == ~crashed /\ pc[p] = "idle" /\ ops < MaxOps

\* --------------------------------------------------------------- envelopes
Request(id, m) ==
    [type |-> msgpackRPCReq, msgid |-> id, method |-> m, params |-> <<2, 3>>,
     error |-> Nil, result |-> Nil]
Response(id, e, r) ==
    [type |-> msgpackRPCRsp, msgid |-> id, method |-> "", params |-> << >>,
     error |-> e, result |-> r]
Notification(m) ==
    [type |-> msgpackRPCNotify, msgid |-> 0, method |-> m, params |-> <<2, 3>>,
     error |-> Nil, result |-> Nil]

\* ---------------------------------------------------------------- endpoint
\* send as it would be if it did not wait for ep.mu to be free.
sendLock_WithoutWaiting(p) ==
    /\ ~crashed
    /\ pc[p] = "send_lock"
    /\ mu' = p
    /\ pc' = [pc EXCEPT ![p] = "send_write"]
    /\ UNCHANGED <<wrapVars, epVars, outbound, inbound, loop, reading, loc, req,
                   ret, crashed, closeCalled, closeSaw, closeMid, accepted, sent, ops>>

\* send, up to the acquisition of ep.mu.
sendLock(p) ==
    /\ ~crashed
    /\ pc[p] = "send_lock"
    /\ mu = 0
    /\ mu' = p
    /\ pc' = [pc EXCEPT ![p] = "send_write"]
    /\ UNCHANGED <<wrapVars, epVars, outbound, inbound, loop, reading, loc, req,
                   ret, crashed, closeCalled, closeSaw, closeMid, accepted, sent, ops>>

\* send, under ep.mu: the closed check, the encoding of the envelope onto the
\* connection (which succeeds or fails), and the deferred unlock.
sendEncode(p) ==
    /\ ~crashed
    /\ pc[p] = "send_write"
    /\ mu = p
    /\ IF closed
         THEN /\ loc' = [loc EXCEPT ![p].sendErr = err]
              /\ UNCHANGED <<outbound, sent>>
         ELSE \E ok \in (IF connClosed THEN {FALSE} ELSE BOOLEAN) :
                IF ok
                  THEN /\ outbound' = Append(outbound,
                                         IF loc[p].op = "Call"
                                           THEN Request(loc[p].id, loc[p].method)
                                           ELSE Notification(loc[p].method))
                       /\ sent' = sent + 1
                       /\ loc' = [loc EXCEPT ![p].sendErr = Nil, ![p].wrote = TRUE]
                  ELSE /\ loc' = [loc EXCEPT ![p].sendErr = "write error"]
                       /\ UNCHANGED <<outbound, sent>>
    /\ mu' = 0
    /\ pc' = [pc EXCEPT ![p] = "send_ret"]
    /\ UNCHANGED <<wrapVars, epVars, inbound, loop, reading, req, ret, crashed,
                   closeCalled, closeSaw, closeMid, accepted, ops>>

\* Call: the atomic increment of the counter and the construction of reqobj.
CallBegin(p) ==
    /\ CanStart(p)
    /\ \E m \in LocalMethods :
         /\ msgid' = (msgid + 1) % MsgidMod
         /\ loc' = [loc EXCEPT ![p] = [NoLoc EXCEPT !.op = "Call", !.id = msgid',
                                                    !.method = m,
                                                    !.afterClose = closeCalled]]
    /\ pc' = [pc EXCEPT ![p] = "call_reg"]
    /\ ops' = ops + 1
    /\ UNCHANGED <<wrapVars, closed, err, pending, serviceMap, mu, outbound,
                   inbound, loop, reading, req, ret, crashed, closeCalled, closeSaw, closeMid,
                   accepted, sent>>

\* Call, under ep.pendingmu: the closed check and the insertion of the request
\* into the pending table.
CallRegister(p) ==
    /\ ~crashed
    /\ pc[p] = "call_reg"
    /\ IF closed
         THEN /\ Returned(p, [NoRet EXCEPT !.op = "Call", !.id = loc[p].id,
                                           !.err = err,
                                           !.afterClose = loc[p].afterClose])
              /\ UNCHANGED <<pending, req>>
         ELSE /\ req' = [req EXCEPT ![p] = [NoReq EXCEPT !.msgid = loc[p].id]]
              /\ pending' = Put(pending, loc[p].id, p)
              /\ pc' = [pc EXCEPT ![p] = "send_lock"]
              /\ UNCHANGED <<loc, ret>>
    /\ UNCHANGED <<wrapVars, closed, err, msgid, serviceMap, mu, outbound, inbound,
                   loop, reading, crashed, closeCalled, closeSaw, closeMid, accepted, sent, ops>>

\* Call, after send has returned: on a send error the request is deleted from
\* the pending table and the error returned; otherwise the goroutine receives
\* from req.done and, once woken, returns req.rsp and req.err.  No statement
\* of the package sends on req.done or closes it.
CallAfterSend(p) ==
    /\ ~crashed
    /\ loc[p].op = "Call"
    /\ pc[p] \in {"send_ret", "call_wait"}
    /\ IF pc[p] = "send_ret"
         THEN IF loc[p].sendErr # Nil
                THEN /\ pending' = Delete(pending, req[p].msgid)
                     /\ Returned(p, [NoRet EXCEPT !.op = "Call", !.id = loc[p].id,
                                                  !.err = loc[p].sendErr,
                                                  !.afterClose = loc[p].afterClose,
                                                  !.wrote = loc[p].wrote])
                ELSE /\ pc' = [pc EXCEPT ![p] = "call_wait"]
                     /\ UNCHANGED <<pending, loc, ret>>
         ELSE /\ req[p].done
              /\ Returned(p, [NoRet EXCEPT !.op = "Call", !.id = loc[p].id,
                                           !.rsp = req[p].rsp, !.err = req[p].err,
                                           !.afterClose = loc[p].afterClose,
                                           !.wrote = loc[p].wrote])
              /\ UNCHANGED pending
    /\ UNCHANGED <<wrapVars, closed, err, msgid, serviceMap, mu, outbound, inbound,
                   loop, reading, req, crashed, closeCalled, closeSaw, closeMid, accepted, sent, ops>>

\* Notify as it would be if it drew a msgid, as Call does.
NotifyBegin_AllocatesMsgid(p) ==
    /\ CanStart(p)
    /\ \E m \in LocalMethods :
         loc' = [loc EXCEPT ![p] = [NoLoc EXCEPT !.op = "Notify", !.method = m,
                                                  !.afterClose = closeCalled]]
    /\ msgid' = (msgid + 1) % MsgidMod
    /\ pc' = [pc EXCEPT ![p] = "send_lock"]
    /\ ops' = ops + 1
    /\ UNCHANGED <<wrapVars, closed, err, pending, serviceMap, mu, outbound,
                   inbound, loop, reading, req, ret, crashed, closeCalled, closeSaw, closeMid,
                   accepted, sent>>

\* Notify: the construction of reqobj and the call of send.
NotifyBegin(p) ==
    /\ CanStart(p)
    /\ \E m \in LocalMethods :
         loc' = [loc EXCEPT ![p] = [NoLoc EXCEPT !.op = "Notify", !.method = m,
                                                  !.afterClose = closeCalled]]
    /\ pc' = [pc EXCEPT ![p] = "send_lock"]
    /\ ops' = ops + 1
    /\ UNCHANGED <<wrapVars, epVars, mu, outbound, inbound, loop, reading, req,
                   ret, crashed, closeCalled, closeSaw, closeMid, accepted, sent>>

\* Notify: the return of send's error.
NotifyReturn(p) ==
    /\ ~crashed
    /\ loc[p].op = "Notify"
    /\ pc[p] = "send_ret"
    /\ Returned(p, [NoRet EXCEPT !.op = "Notify", !.err = loc[p].sendErr,
                                 !.afterClose = loc[p].afterClose,
                                 !.wrote = loc[p].wrote])
    /\ UNCHANGED <<wrapVars, epVars, mu, outbound, inbound, loop, reading, req,
                   crashed, closeCalled, closeSaw, closeMid, accepted, sent, ops>>

\* Register: the body is a bare return, so the error is nil and the endpoint is
\* left as it was; endpoint.register is not called.
Register(p, rcvr) ==
    /\ CanStart(p)
    /\ Returned(p, [NoRet EXCEPT !.op = "Register", !.err = Nil,
                                 !.sname = rcvr.tname,
                                 !.dup = (rcvr.tname \in AcceptedNames),
                                 !.qualifying = suitableMethods(rcvr.methods)])
    /\ accepted' = accepted \cup {<<rcvr.tname, suitableMethods(rcvr.methods)>>}
    /\ ops' = ops + 1
    /\ UNCHANGED <<wrapVars, epVars, mu, outbound, inbound, loop, reading, req,
                   crashed, closeCalled, closeSaw, closeMid, sent>>

\* RegisterName: a bare return as well.
RegisterName(p, rcvr, name) ==
    /\ CanStart(p)
    /\ Returned(p, [NoRet EXCEPT !.op = "RegisterName", !.err = Nil,
                                 !.sname = name,
                                 !.dup = (name \in AcceptedNames),
                                 !.qualifying = suitableMethods(rcvr.methods)])
    /\ accepted' = accepted \cup {<<name, suitableMethods(rcvr.methods)>>}
    /\ ops' = ops + 1
    /\ UNCHANGED <<wrapVars, epVars, mu, outbound, inbound, loop, reading, req,
                   crashed, closeCalled, closeSaw, closeMid, sent>>

\* endpoint.register, called under the type name of the receiver or under an
\* explicit name: under ep.mu it either returns an error, or panics inside
\* suitableMethods, or stores the service and returns nil.  The deferred
\* unlock releases ep.mu on every path.  No function of the package calls it.
registerCall(rcvr, name, useName) ==
    /\ ~crashed
    /\ mu = 0
    /\ LET r == register(serviceMap, rcvr, name, useName)
       IN  /\ serviceMap' = r[2]
           /\ IF r[1] = "panic"
                THEN \E recovered \in BOOLEAN :
                       /\ crashed' = ~recovered
                       /\ ret' = IF recovered
                                   THEN [NoRet EXCEPT !.op = "register",
                                                      !.err = "panic",
                                                      !.sname = rcvr.tname]
                                   ELSE ret
                ELSE /\ ret' = [NoRet EXCEPT
                                  !.op = "register", !.err = r[1],
                                  !.sname = IF useName THEN name ELSE rcvr.tname,
                                  !.qualifying = suitableMethods(rcvr.methods)]
                     /\ UNCHANGED crashed
    /\ UNCHANGED <<wrapVars, closed, err, msgid, pending, mu, outbound, inbound,
                   loop, reading, pc, loc, req, closeCalled, closeSaw, closeMid,
                   accepted, sent, ops>>

\* The peer has sent a notification.
NotificationInbound ==
    \E i \in DOMAIN inbound : inbound[i].type = msgpackRPCNotify

\* Reading as it would be if it answered a notification with a response.
Reading_AnswersNotification ==
    /\ reading' = [ran |-> TRUE, notified |-> NotificationInbound, err |-> Nil]
    /\ outbound' = IF NotificationInbound
                     THEN Append(outbound, Response(0, "method failed", Nil))
                     ELSE outbound
    /\ UNCHANGED <<epVars, mu, inbound, req, sent>>

\* Reading: the body is a bare return.  It reads nothing from the connection,
\* writes nothing to it, touches neither the pending table nor the closed
\* flag, and returns a nil error.
Reading ==
    /\ reading' = [ran |-> TRUE, notified |-> NotificationInbound, err |-> Nil]
    /\ UNCHANGED <<epVars, mu, outbound, inbound, req, sent>>

\* ---------------------------------------------------------------- wrappers
\* The goroutine NewClient starts: it calls c.ep.Reading(c.closed).
ClientLoop ==
    /\ ~crashed
    /\ kind = "client"
    /\ loop = "spawned"
    /\ loop' = "reading"
    /\ UNCHANGED <<wrapVars, epVars, mu, outbound, inbound, reading, pc, loc, req,
                   ret, crashed, closeCalled, closeSaw, closeMid, accepted, sent, ops>>

\* The return of that call: c.err = c.ep.Reading(c.closed), and the goroutine
\* ends.
ClientLoopReturn ==
    /\ ~crashed
    /\ kind = "client"
    /\ loop = "reading"
    /\ Reading
    /\ loop' = "returned"
    /\ UNCHANGED <<wrapVars, pc, loc, ret, crashed, closeCalled, closeSaw, closeMid,
                   accepted, ops>>

\* ServerConn.Serve: the call of sc.ep.Reading(sc.closed).  Nothing records
\* that a loop is already running on the endpoint.
Serve(p) ==
    /\ CanStart(p)
    /\ kind = "server"
    /\ loc' = [loc EXCEPT ![p] = [NoLoc EXCEPT !.op = "Serve"]]
    /\ pc' = [pc EXCEPT ![p] = "reading"]
    /\ ops' = ops + 1
    /\ UNCHANGED <<wrapVars, epVars, mu, outbound, inbound, loop, reading, req,
                   ret, crashed, closeCalled, closeSaw, closeMid, accepted, sent>>

\* ServerConn.Serve: the return of Reading's error.
ServeReturn(p) ==
    /\ ~crashed
    /\ pc[p] = "reading"
    /\ Reading
    /\ Returned(p, [NoRet EXCEPT !.op = "Serve", !.err = reading'.err])
    /\ UNCHANGED <<wrapVars, loop, crashed, closeCalled, closeSaw, closeMid,
                   accepted, ops>>

\* Client.Close / ServerConn.Close: close(closed), then conn.Close().  close of
\* a nil or of an already closed channel panics before conn.Close() is
\* reached; the caller either recovers the panic or the process dies of it.
Close(p) ==
    /\ CanStart(p)
    /\ closeCalled' = TRUE
    /\ closeSaw' = closeSaw \cup { q \in Procs : pc[q] = "call_wait" /\ ~req[q].done }
    /\ closeMid' = closeMid \cup { q \in Procs : /\ loc[q].op = "Call"
                                                 /\ pc[q] \in {"send_lock", "send_write",
                                                               "send_ret"} }
    /\ ops' = ops + 1
    /\ IF closedCh = "open"
         THEN /\ closedCh' = "closed"
              /\ connClosed' = TRUE
              /\ Returned(p, [NoRet EXCEPT !.op = "Close",
                                           !.afterClose = closeCalled])
              /\ UNCHANGED crashed
         ELSE /\ UNCHANGED <<closedCh, connClosed>>
              /\ \E recovered \in BOOLEAN :
                   IF recovered
                     THEN /\ Returned(p, [NoRet EXCEPT !.op = "Close",
                                                       !.err = "panic",
                                                       !.afterClose = closeCalled])
                          /\ UNCHANGED crashed
                     ELSE /\ crashed' = TRUE
                          /\ UNCHANGED <<pc, loc, ret>>
    /\ UNCHANGED <<kind, epVars, mu, outbound, inbound, loop, reading, req,
                   accepted, sent>>

\* -------------------------------------------------------------------- peer
\* What the peer may send: a response to a request it has received, with a
\* result or with an error, a response to no request of this endpoint, a
\* request, or a notification.
PeerEnvelopes ==
    { Response(PeerMsgid, Nil, "5") } \cup
    UNION { { Response(outbound[i].msgid, Nil, "5"),
              Response(outbound[i].msgid, "remote error", Nil) } :
            i \in { j \in DOMAIN outbound : outbound[j].type = msgpackRPCReq } }
    \cup { Request(PeerMsgid, m) : m \in Methods }
    \cup { Notification(m) : m \in Methods }

PeerSend ==
    /\ ~crashed
    /\ ops < MaxOps
    /\ \E e \in PeerEnvelopes : inbound' = Append(inbound, e)
    /\ ops' = ops + 1
    /\ UNCHANGED <<wrapVars, epVars, mu, outbound, loop, reading, pc, loc, req,
                   ret, crashed, closeCalled, closeSaw, closeMid, accepted, sent>>

\* ----------------------------------------------------------- specification
Next ==
    \/ \E p \in Procs : CallBegin(p)
    \/ \E p \in Procs : CallRegister(p)
    \/ \E p \in Procs : sendLock(p)
    \/ \E p \in Procs : sendEncode(p)
    \/ \E p \in Procs : CallAfterSend(p)
    \/ \E p \in Procs : NotifyBegin(p)
    \/ \E p \in Procs : NotifyReturn(p)
    \/ \E p \in Procs : \E rcvr \in Receivers : Register(p, rcvr)
    \/ \E p \in Procs : \E rcvr \in Receivers : \E name \in ExplicitNames :
          RegisterName(p, rcvr, name)
    \/ \E p \in Procs : Serve(p)
    \/ \E p \in Procs : ServeReturn(p)
    \/ \E p \in Procs : Close(p)
    \/ ClientLoop
    \/ ClientLoopReturn
    \/ PeerSend

Spec == Init /\ [][Next]_vars

\* The Go scheduler runs every runnable goroutine: a goroutine inside an
\* operation takes its next step, and the spawned loop runs.  Nothing obliges
\* the program to start a new operation or the peer to send.
Fairness ==
    /\ \A p \in Procs :
         /\ WF_vars(CallRegister(p))
         /\ WF_vars(sendLock(p))
         /\ WF_vars(sendEncode(p))
         /\ WF_vars(CallAfterSend(p))
         /\ WF_vars(NotifyReturn(p))
         /\ WF_vars(ServeReturn(p))
    /\ WF_vars(ClientLoop)
    /\ WF_vars(ClientLoopReturn)

FairSpec == Spec /\ Fairness

\* endpoint.register on its own: the endpoint as constructed, and any sequence
\* of calls of register, by type name or by explicit name.
RegNext ==
    \/ \E rcvr \in RegReceivers : registerCall(rcvr, "", FALSE)
    \/ \E rcvr \in RegReceivers : \E name \in RegNames :
          registerCall(rcvr, name, TRUE)

RegSpec == Init /\ [][RegNext]_vars

\* ------------------------------------------------------------------ claims
\* The progress claims below are stated for the runs in which the process
\* stays alive: a run that ends in the death of the process (crashed)
\* satisfies them.
MsgIds == 0..(MsgidMod - 1)

\* Goroutine p is suspended in Call on the completion signal of its request.
Suspended(p) == pc[p] = "call_wait" /\ ~req[p].done

\* A dispatch loop has been started on the endpoint.
LoopStarted == kind = "client" \/ reading.ran

\* The peer's response to the request with msgid m is on the connection.
ResponseArrived(m) ==
    \E i \in DOMAIN inbound :
        inbound[i].type = msgpackRPCRsp /\ inbound[i].msgid = m

\* The latest return is that of p's Call with msgid m, and it carries the
\* result and error of a response addressed to m.
ReturnedResponse(p, m) ==
    /\ ret.proc = p /\ ret.op = "Call" /\ ret.id = m
    /\ \E i \in DOMAIN inbound :
          /\ inbound[i].type = msgpackRPCRsp /\ inbound[i].msgid = m
          /\ ret.rsp = inbound[i].result /\ ret.err = inbound[i].error

\* C1: every Call whose response has arrived returns, with the result and
\* the error of the response that carries its own msgid.
C1_ResponseRouting ==
    \A p \in Procs : \A m \in MsgIds :
        (LoopStarted /\ ~crashed /\ Suspended(p) /\ req[p].msgid = m
            /\ ResponseArrived(m))
          ~> (ReturnedResponse(p, m) \/ crashed)

\* C2: once Close has been called, every Call that is suspended returns, with
\* the terminal error of the endpoint.
C2_CloseUnblocksCalls ==
    \A p \in Procs :
        (p \in closeSaw /\ ~crashed /\ Suspended(p))
          ~> (\/ ret.proc = p /\ ret.op = "Call" /\ ret.err # Nil /\ ret.err = err
              \/ crashed)

\* C3: a Call or Notify started after Close has been called returns a non-nil
\* error, writes no envelope to the connection and is never suspended.
C3_FailFastAfterClose ==
    /\ (ret.op \in {"Call", "Notify"} /\ ret.afterClose)
          => (ret.err # Nil /\ ~ret.wrote)
    /\ \A p \in Procs :
          loc[p].afterClose => (~loc[p].wrote /\ pc[p] # "call_wait")

\* C4: every call of Close returns without a fault, the first having closed
\* the connection.
C4_CloseIdempotent ==
    /\ ~crashed
    /\ ret.op = "Close" => (ret.err = Nil /\ connClosed)

\* The peer's request number i of the inbound stream has been answered on the
\* connection: with an error if e, with a result otherwise.
Answered(i, withError) ==
    \E j \in DOMAIN outbound :
        /\ outbound[j].type = msgpackRPCRsp
        /\ outbound[j].msgid = inbound[i].msgid
        /\ (outbound[j].error # Nil) = withError

\* C5: a request that names a method no registration has offered is answered
\* by a response with the request's msgid and a non-nil error.
C5_UnknownMethodAnswered ==
    \A i \in 1..MaxOps :
        (LoopStarted /\ ~crashed /\ i \in DOMAIN inbound
            /\ inbound[i].type = msgpackRPCReq
            /\ inbound[i].method \notin (RegisteredMethods \cup AcceptedMethods))
          ~> (Answered(i, TRUE) \/ crashed)

\* C6: a step of Notify changes neither the msgid counter nor the pending
\* table, and a goroutine inside Notify is never waiting for the peer: it can
\* take a step unless another goroutine holds the write lock.
C6_NotifyFrame ==
    /\ [][\A p \in Procs :
            ((loc[p].op = "Notify" \/ loc'[p].op = "Notify") /\ pc'[p] # pc[p])
              => (msgid' = msgid /\ pending' = pending)]_vars
    /\ [](\A p \in Procs :
            (loc[p].op = "Notify" /\ ~crashed)
              => \/ pc[p] = "send_lock" /\ mu \in Procs \ {p}
                 \/ ENABLED (sendLock(p) \/ sendEncode(p) \/ NotifyReturn(p)))

\* A Notify has returned after its write, while a Call of another goroutine
\* was registered in the pending table.
C6_Witness ==
    /\ ret.op = "Notify" /\ ret.wrote
    /\ DOMAIN pending # {}

\* C7: a registration under a service name that an earlier registration took
\* returns an error, and the service registered first is in the registry.
C7_DuplicateRejected ==
    (ret.op \in {"Register", "RegisterName"} /\ ret.dup)
      => (ret.err # Nil /\ ret.sname \in DOMAIN serviceMap)

\* C8: Register of a receiver without qualifying methods returns an error and
\* adds no service; Register of a receiver with qualifying methods that
\* returns nil has added the service with exactly those methods.
C8_QualifyingMethods ==
    ret.op = "Register" =>
        IF ret.qualifying = {}
          THEN ret.err # Nil /\ ret.sname \notin DOMAIN serviceMap
          ELSE ret.err = Nil =>
                 /\ ret.sname \in DOMAIN serviceMap
                 /\ serviceMap[ret.sname] = ret.qualifying

\* C9: the dispatch loop writes nothing in reaction to a notification: every
\* envelope on the connection is a request or a notification that the send
\* path of a local Call or Notify has encoded.
C9_NoReplyToNotification ==
    /\ Len(outbound) = sent
    /\ \A j \in DOMAIN outbound :
          outbound[j].type \in {msgpackRPCReq, msgpackRPCNotify}

\* Reading has run with a notification on the connection.
C9_Witness ==
    reading.ran /\ reading.notified

\* C10: a request that names a method of a receiver whose registration
\* returned nil is answered by a response with the request's msgid.
C10_RegisteredMethodAnswered ==
    \A i \in 1..MaxOps :
        (LoopStarted /\ ~crashed /\ i \in DOMAIN inbound
            /\ inbound[i].type = msgpackRPCReq
            /\ inbound[i].method \in AcceptedMethods)
          ~> (Answered(i, TRUE) \/ Answered(i, FALSE) \/ crashed)

\* Goroutine p is inside a Call whose request it has put into the pending
\* table and which has not returned.
Registered(p) ==
    /\ loc[p].op = "Call"
    /\ pc[p] \in {"send_lock", "send_write", "send_ret", "call_wait"}

\* C11: the step a Call takes after its write has failed is its return, with
\* the write error; after it the pending table has no entry for the Call's
\* msgid, and every entry of another caller is as it was.
C11_SendFailureReturns ==
    [][\A p \in Procs :
          (/\ loc[p].op = "Call" /\ pc[p] = "send_ret" /\ loc[p].sendErr # Nil
           /\ pc'[p] # pc[p])
            => /\ pc'[p] = "idle"
               /\ ret'.proc = p /\ ret'.op = "Call" /\ ret'.err = loc[p].sendErr
               /\ loc[p].id \notin DOMAIN pending'
               /\ \A k \in DOMAIN pending :
                     pending[k] # p
                       => (k \in DOMAIN pending' /\ pending'[k] = pending[k])]_vars

\* C12: when a dispatch loop returns, every request of the pending table has
\* been completed with the terminal error of the endpoint, no Call is left
\* suspended, and a read error the loop returns is the terminal error.
C12_LoopExitResolvesPending ==
    [][(ClientLoopReturn \/ \E p \in Procs : ServeReturn(p))
          => /\ \A k \in DOMAIN pending :
                   req'[pending[k]].done /\ req'[pending[k]].err = err'
             /\ \A q \in Procs : ~(pc'[q] = "call_wait" /\ ~req'[q].done)
             /\ reading'.err # Nil => err' = reading'.err]_vars

\* A dispatch loop is inside Reading.
LoopRunning == loop = "reading" \/ \E p \in Procs : pc[p] = "reading"

\* A dispatch loop has entered Reading at some time.
LoopEntered == LoopRunning \/ loop = "returned" \/ reading.ran

\* The peer has sent a response whose msgid has no entry in the pending table.
UnmatchedResponseInbound ==
    \E i \in DOMAIN inbound :
        inbound[i].type = msgpackRPCRsp /\ inbound[i].msgid \notin DOMAIN pending

\* C13: a response without an entry in the pending table does not end the
\* dispatch loop: as long as Close has not been called, the loop that was
\* started is still running.
C13_UnmatchedResponseDiscarded ==
    (LoopEntered /\ ~crashed /\ ~closeCalled /\ UnmatchedResponseInbound)
      => LoopRunning

\* C14: no two Calls that are registered in the pending table at the same time
\* carry the same msgid, and each of them owns the entry of its msgid.
C14_MsgidUniqueWhilePending ==
    \A p, q \in Procs :
        (p # q /\ Registered(p) /\ Registered(q))
          => /\ req[p].msgid # req[q].msgid
             /\ req[p].msgid \in DOMAIN pending
             /\ pending[req[p].msgid] = p

\* C15: at most one goroutine is writing to the connection at any time, and
\* it is the holder of the write lock.
C15_WritesExclusive ==
    /\ \A p, q \in Procs :
          (pc[p] = "send_write" /\ pc[q] = "send_write") => p = q
    /\ \A p \in Procs : pc[p] = "send_write" => mu = p

\* One goroutine is writing while another, inside send as well, waits for
\* the write lock.
C15_Witness ==
    \E p, q \in Procs :
        p # q /\ pc[p] = "send_write" /\ pc[q] = "send_lock"

\* C16: a request stays in the pending table, under its msgid, until its own
\* Call is resolved, and the table has no entry of a Call that has returned.
C16_RemovedExactlyOnce ==
    /\ \A p \in Procs :
          Registered(p)
            => (req[p].msgid \in DOMAIN pending /\ pending[req[p].msgid] = p)
    /\ (ret.op = "Call" /\ ret.proc \in Procs /\ pc[ret.proc] = "idle")
          => ~(ret.id \in DOMAIN pending /\ pending[ret.id] = ret.proc)

\* C18: at most one goroutine is inside Reading at any time; the Client has
\* its loop from construction on, the ServerConn none before Serve.
C18_OneDispatchLoop ==
    /\ Cardinality({ p \in Procs : pc[p] = "reading" })
          + (IF loop = "reading" THEN 1 ELSE 0) <= 1
    /\ kind = "client" <=> loop # "none"

\* C20: a Call that was between its closed check and its suspension when
\* Close was called returns, with a non-nil error.
C20_CloseDuringCall ==
    \A p \in Procs :
        (p \in closeMid /\ ~crashed /\ loc[p].op = "Call" /\ ~loc[p].afterClose)
          ~> (\/ /\ ret.proc = p /\ ret.op = "Call" /\ ~ret.afterClose
                 /\ ret.err # Nil
              \/ crashed)

\* C19: a call of register that does not return nil returns an error to its
\* caller, and leaves the registry with the services it had, the pending
\* table, the closed flag and the terminal error as they were.
C19_FailedRegistrationFrame ==
    [][(crashed' \/ (ret'.op = "register" /\ ret'.err # Nil))
          => /\ ~crashed'
             /\ ret'.err # "panic"
             /\ serviceMap' = serviceMap
             /\ pending' = pending
             /\ closed' = closed
             /\ err' = err]_vars

=============================================================================
